---- MODULE Spec2Model ----
(***************************************************************************)
(* Chunk insert plan cache of src/chunk_cache.c: a hash table              *)
(* chunk_id => chunk_insert_plan_htable_entry holding the SPI plan that    *)
(* moves rows from the copy table into the chunk's tables, the chunk       *)
(* lookup that feeds it (chunk_scan), and the statement synthesizer        *)
(* (get_copy_table_insert_sql).                                            *)
(***************************************************************************)
EXTENDS Integers, Sequences, FiniteSets, TLC

\* ------------------------------------------------------------------ bounds
MaxTime == 1
MaxChunks == 2
MaxPlans == 3
MaxPartitions == 2
MaxTables == 3

\* ------------------------------------------------------- program constants
\* Values a NULL start / end column is read as (chunk_tuple_timepoint_filter).
\* OPEN_END_TIME is the largest value of the time type; the modelled time
\* type is OPEN_START_TIME .. MaxTime + 1.
OPEN_START_TIME == 0 - 1
OPEN_END_TIME == MaxTime + 1

Timepoints == 0 .. MaxTime
ChunkIds == 1 .. MaxChunks

\* The one partition and epoch the model runs on (Partition, epoch_and_partitions_set).
PartitionId == 1
NumPartitions == 2
KeyspaceStart == 0
KeyspaceEnd == 32767

VARIABLES
    chunk_tbl,             \* the chunk catalog table: set of chunk tuples of the partition
    htab,                  \* chunk_insert_plan_cache.htab: set of entries (meaningful when not NULL)
    htab_is_null,          \* chunk_insert_plan_cache.htab == NULL
    post_invalidate_hook,  \* chunk_insert_plan_cache.post_invalidate_hook
    plans,                 \* SPI plans ever prepared: handle h |-> [sql, freed]
    initialized,           \* _chunk_cache_init has run
    last,                  \* the most recent cache operation, what it did and what preceded it
    scan,                  \* one chunk_scan call, tuple by tuple: ChunkScanCtx and the scanner's position
    synth                  \* one get_copy_table_insert_sql call: its ChunkCacheQueryCtx and its result

vars == <<chunk_tbl, htab, htab_is_null, post_invalidate_hook, plans, initialized, last, scan, synth>>

\* ------------------------------------------------------------ chunk tuples
\* A tuple of the chunk table.  A NULL column carries value 0 and its flag.
ChunkTuple(id, snull, s, enull, e) ==
    [id |-> id, starttime_is_null |-> snull, start_time |-> IF snull THEN 0 ELSE s,
     endtime_is_null |-> enull, end_time |-> IF enull THEN 0 ELSE e]

\* chunk_row_create: the row handed to the caller, bounds as int64 values.
chunk_row_create(id, partition_id, starttime, endtime) ==
    [id |-> id, partition_id |-> partition_id, start_time |-> starttime, end_time |-> endtime]

NoChunk == chunk_row_create(0, 0, 0, 0)

\* The values chunk_tuple_timepoint_filter leaves in ctx->starttime / ctx->endtime.
CtxStarttime(t) == IF t.starttime_is_null THEN OPEN_START_TIME ELSE t.start_time
CtxEndtime(t) == IF t.endtime_is_null THEN OPEN_END_TIME ELSE t.end_time

chunk_tuple_timepoint_filter(t, timepoint) ==
    /\ (t.starttime_is_null \/ timepoint >= CtxStarttime(t))
    /\ (t.endtime_is_null \/ timepoint <= CtxEndtime(t))

chunk_tuple_found(t) ==
    chunk_row_create(t.id, PartitionId, CtxStarttime(t), CtxEndtime(t))

\* Order of the (partition_id, start_time, end_time) index: ascending, NULLs last.
IndexBefore(a, b) ==
    LET ka == <<IF a.starttime_is_null THEN 1 ELSE 0, a.start_time,
                IF a.endtime_is_null THEN 1 ELSE 0, a.end_time, a.id>>
        kb == <<IF b.starttime_is_null THEN 1 ELSE 0, b.start_time,
                IF b.endtime_is_null THEN 1 ELSE 0, b.end_time, b.id>>
        Lt(i) == ka[i] < kb[i]
        Eq(i) == ka[i] = kb[i]
    IN \/ Lt(1)
       \/ Eq(1) /\ Lt(2)
       \/ Eq(1) /\ Eq(2) /\ Lt(3)
       \/ Eq(1) /\ Eq(2) /\ Eq(3) /\ Lt(4)
       \/ Eq(1) /\ Eq(2) /\ Eq(3) /\ Eq(4) /\ Lt(5)

RECURSIVE ScanOrder(_)
ScanOrder(tuples) ==
    IF tuples = {} THEN <<>>
    ELSE LET first == CHOOSE t \in tuples : \A u \in tuples \ {t} : IndexBefore(t, u)
         IN <<first>> \o ScanOrder(tuples \ {first})

\* scanner_scan with a filter and a tuple_found that returns false: the scan
\* stops at the first tuple the filter accepts.
RECURSIVE ScannerScan(_, _)
ScannerScan(seq, timepoint) ==
    IF seq = <<>> THEN NoChunk
    ELSE IF chunk_tuple_timepoint_filter(Head(seq), timepoint)
         THEN chunk_tuple_found(Head(seq))
         ELSE ScannerScan(Tail(seq), timepoint)

chunk_scan(tbl, timepoint) == ScannerScan(ScanOrder(tbl), timepoint)

\* Two chunk tuples own a common timepoint.
Overlap(a, b) ==
    /\ CtxStarttime(a) <= CtxEndtime(b)
    /\ CtxStarttime(b) <= CtxEndtime(a)

\* Bounds a chunk tuple can carry: start <= end, either side possibly NULL.
TupleBounds ==
    {b \in [snull : BOOLEAN, s : Timepoints, enull : BOOLEAN, e : Timepoints] :
        /\ (b.snull => b.s = 0) /\ (b.enull => b.e = 0)
        /\ (~b.snull /\ ~b.enull => b.s <= b.e)}


\* ------------------------------------------------- statement synthesizer
\* fetch_crn_set: the destination tables of a chunk, in the routing lookup's order.
fetch_crn_set(chunk_id) ==
    <<[chunk_id |-> chunk_id, replica |-> 1], [chunk_id |-> chunk_id, replica |-> 2]>>

\* internal_time_to_column_literal_sql: the literal text of an internal time.
internal_time_to_column_literal_sql(t) == [literal |-> t]

WhereTrue == <<[clause |-> "TRUE"]>>

\* A partition clause emitted for a single partition too.
WherePartitionAlways(num_partitions, keyspace_start, keyspace_end) ==
    IF num_partitions >= 1
    THEN <<[clause |-> "partfunc BETWEEN", lo |-> keyspace_start, hi |-> keyspace_end]>>
    ELSE <<>>

WherePartition(num_partitions, keyspace_start, keyspace_end) ==
    IF num_partitions > 1
    THEN <<[clause |-> "partfunc BETWEEN", lo |-> keyspace_start, hi |-> keyspace_end]>>
    ELSE <<>>

WhereStart(chunk_start_time) ==
    IF chunk_start_time # OPEN_START_TIME
    THEN <<[clause |-> "time >=", arg |-> internal_time_to_column_literal_sql(chunk_start_time)]>>
    ELSE <<>>

WhereEnd(chunk_end_time) ==
    IF chunk_end_time # OPEN_END_TIME
    THEN <<[clause |-> "time <=", arg |-> internal_time_to_column_literal_sql(chunk_end_time)]>>
    ELSE <<>>

\* A loop that walks crn->tables from its last table to its first.
InsertClausesReversed(tables) ==
    [i \in 1 .. Len(tables) |->
        [tok |-> "insert", i |-> i, into |-> tables[Len(tables) + 1 - i], from |-> "selected"]]

\* The foreach loop over crn->tables: one "i_<n> AS (INSERT ...)" per table,
\* appended one after the other to insert_clauses.
InsertClauses(tables) ==
    [i \in 1 .. Len(tables) |->
        [tok |-> "insert", i |-> i, into |-> tables[i], from |-> "selected"]]

\* The statement text as its sequence of tokens, in the order of the format
\* string "WITH selected AS ( DELETE ... RETURNING * ), %3$s SELECT 1".
get_copy_table_insert_sql(num_partitions, keyspace_start, keyspace_end, chunk_start_time, chunk_end_time, tables) ==
    <<[tok |-> "selected",
       where |-> WhereTrue
                 \o WherePartition(num_partitions, keyspace_start, keyspace_end)
                 \o WhereStart(chunk_start_time)
                 \o WhereEnd(chunk_end_time)],
      [tok |-> ","]>>
    \o InsertClauses(tables)
    \o <<[tok |-> "SELECT 1"]>>

\* The statement for a ChunkCacheQueryCtx of the modelled partition.
InsertSql(ctx) ==
    get_copy_table_insert_sql(NumPartitions, KeyspaceStart, KeyspaceEnd,
                              ctx.chunk_start_time, ctx.chunk_end_time,
                              fetch_crn_set(ctx.chunk_id))

\* ------------------------------------------------------------- SPI plans
\* prepare_plan: a new plan handle for the statement; handles are never reused.
prepare_plan(pl, insert_sql) ==
    Append(pl, [sql |-> insert_sql, freed |-> 0])

\* SPI_freeplan: the plan's memory is gone and the handle is released once
\* more (the count saturates at 2).
SPI_freeplan(pl, h) ==
    [pl EXCEPT ![h].sql = <<>>, ![h].freed = IF @ < 2 THEN @ + 1 ELSE 2]

Ev(e, h) == [ev |-> e, h |-> h]


\* ------------------------------------------------------ plan cache hooks
\* ChunkCacheQueryCtx, as far as the plan cache reads it.
QueryCtx(chunk_id, chunk_start_time, chunk_end_time) ==
    [chunk_id |-> chunk_id, chunk_start_time |-> chunk_start_time,
     chunk_end_time |-> chunk_end_time]

\* A hash table slot before create_entry has filled it.
BlankEntry(chunk_id) ==
    [chunk_id |-> chunk_id, start_time |-> 0, end_time |-> 0, move_from_copyt_plan |-> 0]

\* What a hook hands back: whether it returned (ok) or raised an error, the
\* entry as it left it, the plans, and what it did, in order.
HookResult(ok, pe, pl, events) == [ok |-> ok, pe |-> pe, plans |-> pl, events |-> events]

\* chunk_insert_plan_cache_create_entry.  fail names the step that raises an
\* error: "synth" (get_copy_table_insert_sql), "compile" (prepare_plan), "none".
chunk_insert_plan_cache_create_entry(pl, pe, cctx, fail) ==
    IF fail = "synth" THEN HookResult(FALSE, pe, pl, <<>>)
    ELSE LET insert_sql == InsertSql(cctx)
             pe1 == [pe EXCEPT !.chunk_id = cctx.chunk_id,
                               !.start_time = cctx.chunk_start_time,
                               !.end_time = cctx.chunk_end_time]
             h == Len(pl) + 1
         IN IF fail = "compile"
            THEN HookResult(FALSE, pe1, pl, <<Ev("synth", 0)>>)
            ELSE HookResult(TRUE, [pe1 EXCEPT !.move_from_copyt_plan = h],
                            prepare_plan(pl, insert_sql),
                            <<Ev("synth", 0), Ev("compile", h), Ev("store", h)>>)

\* An update_entry that releases the first plan ever prepared instead of
\* the entry's own.
chunk_insert_plan_cache_update_entry_frees_first(pl, pe, cctx, fail) ==
    IF pe.start_time = cctx.chunk_start_time /\ pe.end_time = cctx.chunk_end_time
    THEN HookResult(TRUE, pe, pl, <<>>)
    ELSE IF fail = "synth" THEN HookResult(FALSE, pe, pl, <<>>)
    ELSE LET insert_sql == InsertSql(cctx)
             old == 1
             pl1 == SPI_freeplan(pl, old)
             h == Len(pl) + 1
         IN IF fail = "compile"
            THEN HookResult(FALSE, pe, pl1, <<Ev("synth", 0), Ev("free", old)>>)
            ELSE HookResult(TRUE, [pe EXCEPT !.move_from_copyt_plan = h],
                            prepare_plan(pl1, insert_sql),
                            <<Ev("synth", 0), Ev("free", old), Ev("compile", h), Ev("store", h)>>)

\* chunk_insert_plan_cache_update_entry.
chunk_insert_plan_cache_update_entry(pl, pe, cctx, fail) ==
    IF pe.start_time = cctx.chunk_start_time /\ pe.end_time = cctx.chunk_end_time
    THEN HookResult(TRUE, pe, pl, <<>>)
    ELSE IF fail = "synth" THEN HookResult(FALSE, pe, pl, <<>>)
    ELSE LET insert_sql == InsertSql(cctx)
             old == pe.move_from_copyt_plan
             pl1 == SPI_freeplan(pl, old)
             h == Len(pl) + 1
         IN IF fail = "compile"
            THEN HookResult(FALSE, pe, pl1, <<Ev("synth", 0), Ev("free", old)>>)
            ELSE HookResult(TRUE, [pe EXCEPT !.move_from_copyt_plan = h],
                            prepare_plan(pl1, insert_sql),
                            <<Ev("synth", 0), Ev("free", old), Ev("compile", h), Ev("store", h)>>)

\* hash_seq_search order of the entries (by key).
RECURSIVE HashSeq(_)
HashSeq(entries) ==
    IF entries = {} THEN <<>>
    ELSE LET e == CHOOSE x \in entries : \A y \in entries : x.chunk_id <= y.chunk_id
         IN <<e>> \o HashSeq(entries \ {e})

\* chunk_insert_plan_cache_pre_invalidate: SPI_freeplan on every entry's plan.
RECURSIVE PreInvalidateLoop(_, _, _)
PreInvalidateLoop(seq, pl, events) ==
    IF seq = <<>> THEN [plans |-> pl, events |-> events]
    ELSE PreInvalidateLoop(Tail(seq),
                           SPI_freeplan(pl, Head(seq).move_from_copyt_plan),
                           Append(events, Ev("free", Head(seq).move_from_copyt_plan)))

chunk_insert_plan_cache_pre_invalidate(entries, pl) ==
    PreInvalidateLoop(HashSeq(entries), pl, <<>>)


\* -------------------------------------------------------- cache framework
\* What a cache operation did: which operation, the key and bounds it was
\* called with, the plan handed back (0: none), what it did in order, and the
\* entries it found (the key's entry for a fetch, every entry for an
\* invalidation).
OpRecord(op, cctx, plan, events, before) ==
    [op |-> op, chunk_id |-> cctx.chunk_id, start_time |-> cctx.chunk_start_time,
     end_time |-> cctx.chunk_end_time, plan |-> plan, events |-> events, before |-> before]

NoCtx == QueryCtx(0, 0, 0)

\* What a fetch remembers of the cache operation before it: the plan it
\* handed back if it was a fetch of the same key and bounds (else 0), and, if
\* it was an invalidation that dropped an entry of this key, whether that
\* entry's bounds were the ones now supplied.
NoHistory == [prev_plan |-> 0, dropped |-> "none"]

FetchOps == {"miss", "hit", "rebuild", "create_failed", "rebuild_failed"}

History(l, rec) ==
    IF rec.op \in FetchOps
    THEN [prev_plan |-> IF /\ l.chunk_id = rec.chunk_id /\ l.start_time = rec.start_time
                           /\ l.end_time = rec.end_time
                        THEN l.plan ELSE 0,
          dropped |-> IF l.op # "invalidate" \/ \A e \in l.before : e.chunk_id # rec.chunk_id
                      THEN "none"
                      ELSE IF \E e \in l.before : /\ e.chunk_id = rec.chunk_id
                                                   /\ e.start_time = rec.start_time
                                                   /\ e.end_time = rec.end_time
                           THEN "same bounds" ELSE "other bounds"]
    ELSE NoHistory

\* The record kept of the most recent cache operation; the bounds are kept
\* for a fetch that returned an entry.
Chain(l, rec) ==
    [op |-> rec.op, chunk_id |-> rec.chunk_id,
     start_time |-> IF rec.plan # 0 THEN rec.start_time ELSE 0,
     end_time |-> IF rec.plan # 0 THEN rec.end_time ELSE 0,
     plan |-> rec.plan, events |-> rec.events,
     before |-> rec.before, history |-> History(l, rec)]

NoOp == Chain(OpRecord("none", NoCtx, 0, <<>>, {}), OpRecord("none", NoCtx, 0, <<>>, {}))

\* A miss that leaves the slot in the table whatever create_entry did.
FetchMissKeepsSlot(entries, cctx, r) ==
    [htab |-> entries \cup {r.pe},
     plans |-> r.plans,
     rec |-> OpRecord(IF r.ok THEN "miss" ELSE "create_failed", cctx,
                      IF r.ok THEN r.pe.move_from_copyt_plan ELSE 0, r.events, {})]

\* cache_fetch on a miss: r is what create_entry did with the new slot; the
\* entry is stored when create_entry returned, nothing is stored when it raised.
FetchMiss(entries, cctx, r) ==
    [htab |-> IF r.ok THEN entries \cup {r.pe} ELSE entries,
     plans |-> r.plans,
     rec |-> OpRecord(IF r.ok THEN "miss" ELSE "create_failed", cctx,
                      IF r.ok THEN r.pe.move_from_copyt_plan ELSE 0, r.events, {})]

\* cache_fetch on a hit: r is what update_entry did with the stored entry pe,
\* in place.
FetchHit(entries, cctx, pe, r) ==
    [htab |-> (entries \ {pe}) \cup {r.pe},
     plans |-> r.plans,
     rec |-> OpRecord(IF ~r.ok THEN "rebuild_failed"
                      ELSE IF r.events = <<>> THEN "hit" ELSE "rebuild", cctx,
                      IF r.ok THEN r.pe.move_from_copyt_plan ELSE 0, r.events, {pe})]

FetchFound(entries, pl, cctx, fail, pe) ==
    FetchHit(entries, cctx, pe, chunk_insert_plan_cache_update_entry(pl, pe, cctx, fail))

\* cache_fetch: look the key up; on a miss run create_entry, on a hit run
\* update_entry on the stored entry.
cache_fetch(entries, pl, cctx, fail) ==
    IF \A e \in entries : e.chunk_id # cctx.chunk_id
    THEN FetchMiss(entries, cctx,
                   chunk_insert_plan_cache_create_entry(pl, BlankEntry(cctx.chunk_id), cctx, fail))
    ELSE FetchFound(entries, pl, cctx, fail, CHOOSE e \in entries : e.chunk_id = cctx.chunk_id)

\* A cache declared without a post-invalidate hook.
PostInvalidateHookMissing == "NULL"

\* The static initializer of chunk_insert_plan_cache.post_invalidate_hook.
PostInvalidateHookInit == "cache_init"

\* cache_invalidate: nothing on a cache without a hash table; otherwise the
\* pre-invalidate hook, then the hash table and its memory are destroyed,
\* then the post-invalidate hook (cache_init creates an empty hash table).
cache_invalidate(entries, is_null, pl, hook) ==
    IF is_null
    THEN [htab |-> entries, htab_is_null |-> TRUE, plans |-> pl, events |-> <<>>, ran |-> FALSE]
    ELSE LET pre == chunk_insert_plan_cache_pre_invalidate(entries, pl)
         IN [htab |-> {}, htab_is_null |-> hook # "cache_init", plans |-> pre.plans,
             events |-> pre.events \o <<Ev("destroy", 0)>>
                        \o (IF hook = "cache_init" THEN <<Ev("init", 0)>> ELSE <<>>),
             ran |-> TRUE]

\* ------------------------------------------------------------ single calls
\* ChunkScanCtx during one chunk_scan: the timepoint, the tuples of the
\* partition the index scan has not yet handed to the filter, starttime /
\* endtime as the filter last wrote them, the chunk (NoChunk: NULL), where the
\* call stands, and the statement synthesized for the chunk afterwards.
ScanState(timepoint, rest, starttime, endtime, chunk, pc, sql) ==
    [timepoint |-> timepoint, rest |-> rest, starttime |-> starttime, endtime |-> endtime,
     chunk |-> chunk, pc |-> pc, sql |-> sql]

NoScan == ScanState(0, <<>>, 0, 0, NoChunk, "none", <<>>)

\* One get_copy_table_insert_sql call: the fields of ChunkCacheQueryCtx it
\* reads, the crn_set fetch_crn_set hands it, and the text it returns.
SynthState(num_partitions, keyspace_start, keyspace_end, chunk_start_time, chunk_end_time, tables, sql, pc) ==
    [num_partitions |-> num_partitions, keyspace_start |-> keyspace_start,
     keyspace_end |-> keyspace_end, chunk_start_time |-> chunk_start_time,
     chunk_end_time |-> chunk_end_time, tables |-> tables, sql |-> sql, pc |-> pc]

NoSynth == SynthState(0, 0, 0, 0, 0, <<>>, <<>>, "none")

\* ----------------------------------------------------------------- actions
Init ==
    /\ chunk_tbl = {}
    /\ htab = {}
    /\ htab_is_null = TRUE
    /\ post_invalidate_hook = PostInvalidateHookInit
    /\ plans = <<>>
    /\ initialized = FALSE
    /\ last = NoOp
    /\ scan = NoScan
    /\ synth = NoSynth

\* _chunk_cache_init, run once when the module is loaded.
chunk_cache_init ==
    /\ ~initialized
    /\ initialized' = TRUE
    /\ htab' = {}
    /\ htab_is_null' = FALSE
    /\ last' = Chain(last, OpRecord("init", NoCtx, 0, <<Ev("init", 0)>>, {}))
    /\ UNCHANGED <<chunk_tbl, post_invalidate_hook, plans, scan, synth>>

\* chunk_row_insert_new: a new chunk tuple owning the timepoint, with the next id.
chunk_row_insert_new(tbl, nb) ==
    ChunkTuple(Cardinality(tbl) + 1, nb.snull, nb.s, nb.enull, nb.e)

DefaultBounds == [snull |-> TRUE, s |-> 0, enull |-> TRUE, e |-> 0]

\* The bounds chunk_row_insert_new can give a new chunk: it owns the timepoint
\* and overlaps no chunk of the partition (DefaultBounds when none is made).
NewChunkBounds(tbl, timepoint) ==
    IF chunk_scan(tbl, timepoint) # NoChunk THEN {DefaultBounds}
    ELSE {nb \in TupleBounds :
            LET created == chunk_row_insert_new(tbl, nb)
            IN /\ created.id \in ChunkIds
               /\ chunk_tuple_timepoint_filter(created, timepoint)
               /\ \A t \in tbl : ~Overlap(t, created)}

\* The tail of get_chunk_cache_entry: the fetched plan goes into the returned
\* chunk_cache_entry.  An error aborts the caller's transaction, which undoes
\* the chunk it inserted; the plan cache is not transactional.  fail names a
\* step only when that step runs.
ApplyFetch(scanned, created, f, fail) ==
    /\ Len(f.plans) <= MaxPlans
    /\ f.rec.op = "hit" => fail = "none"
    /\ last' = Chain(last, f.rec)
    /\ htab' = f.htab
    /\ plans' = f.plans
    /\ chunk_tbl' = IF scanned = NoChunk /\ f.rec.plan # 0
                    THEN chunk_tbl \cup {created} ELSE chunk_tbl

\* get_chunk_insert_plan_cache_entry for the resolved chunk.
FetchChunk(scanned, created, chunk, fail) ==
    ApplyFetch(scanned, created,
               cache_fetch(htab, plans, QueryCtx(chunk.id, chunk.start_time, chunk.end_time), fail),
               fail)

\* Resolution that takes the creation path whatever the scan found.
ResolveAlwaysCreates(scanned, created, fail) ==
    FetchChunk(scanned, created, chunk_tuple_found(created), fail)

\* chunk = chunk_scan(...); if (chunk == NULL) chunk = chunk_row_insert_new(...).
Resolve(scanned, created, fail) ==
    FetchChunk(scanned, created,
               IF scanned = NoChunk THEN chunk_tuple_found(created) ELSE scanned, fail)

\* get_chunk_cache_entry(hci, pe_entry, part, timepoint, lock), called between
\* _chunk_cache_init and _chunk_cache_fini.  nb: the bounds of the chunk it
\* inserts when the scan finds none; fail: the step that raises an error.
get_chunk_cache_entry(timepoint, nb, fail) ==
    /\ ~htab_is_null
    /\ nb \in NewChunkBounds(chunk_tbl, timepoint)
    /\ Resolve(chunk_scan(chunk_tbl, timepoint), chunk_row_insert_new(chunk_tbl, nb), fail)
    /\ UNCHANGED <<htab_is_null, post_invalidate_hook, initialized, scan, synth>>

\* invalidate_chunk_cache_callback.
invalidate_chunk_cache_callback ==
    LET r == cache_invalidate(htab, htab_is_null, plans, post_invalidate_hook)
    IN /\ htab' = r.htab
       /\ htab_is_null' = r.htab_is_null
       /\ plans' = r.plans
       /\ last' = Chain(last, OpRecord(IF r.ran THEN "invalidate" ELSE "invalidate_noop",
                                       NoCtx, 0, r.events, IF r.ran THEN htab ELSE {}))
       /\ UNCHANGED <<chunk_tbl, post_invalidate_hook, initialized, scan, synth>>

\* _chunk_cache_fini without the first assignment: the hook stays as it is.
chunk_cache_fini_keeps_hook ==
    LET r == cache_invalidate(htab, htab_is_null, plans, post_invalidate_hook)
    IN /\ initialized
       /\ htab' = r.htab
       /\ htab_is_null' = r.htab_is_null
       /\ plans' = r.plans
       /\ last' = Chain(last, OpRecord("fini", NoCtx, 0, r.events, IF r.ran THEN htab ELSE {}))
       /\ UNCHANGED <<chunk_tbl, initialized, post_invalidate_hook, scan, synth>>

\* _chunk_cache_fini, run once when the module is unloaded.
chunk_cache_fini ==
    LET hook == "NULL"
        r == cache_invalidate(htab, htab_is_null, plans, hook)
    IN /\ initialized
       /\ post_invalidate_hook = PostInvalidateHookInit
       /\ post_invalidate_hook' = hook
       /\ htab' = r.htab
       /\ htab_is_null' = r.htab_is_null
       /\ plans' = r.plans
       /\ last' = Chain(last, OpRecord("fini", NoCtx, 0, r.events, IF r.ran THEN htab ELSE {}))
       /\ UNCHANGED <<chunk_tbl, initialized, scan, synth>>

\* The chunk-management process moves the bounds of an existing chunk (seen
\* by this module only while its cache is in use).
ChunkBoundsChange(id, nb) ==
    \E t \in chunk_tbl :
        LET u == ChunkTuple(id, nb.snull, nb.s, nb.enull, nb.e)
        IN /\ ~htab_is_null
           /\ t.id = id
           /\ u # t
           /\ \A o \in chunk_tbl \ {t} : ~Overlap(o, u)
           /\ chunk_tbl' = (chunk_tbl \ {t}) \cup {u}
           /\ UNCHANGED <<htab, htab_is_null, post_invalidate_hook, plans, initialized, last, scan, synth>>

Next ==
    \/ chunk_cache_init
    \/ \E timepoint \in Timepoints :
          \E nb \in NewChunkBounds(chunk_tbl, timepoint), fail \in {"none", "synth", "compile"} :
              get_chunk_cache_entry(timepoint, nb, fail)
    \/ invalidate_chunk_cache_callback
    \/ chunk_cache_fini
    \/ \E id \in {t.id : t \in chunk_tbl}, nb \in TupleBounds : ChunkBoundsChange(id, nb)

Spec == Init /\ [][Next]_vars

\* ------------------------------------------------ chunk_scan, tuple by tuple
\* The values of the time type: timepoints and non-NULL bounds are int64, so
\* there are values below OPEN_START_TIME; OPEN_END_TIME is the largest.
TimeValues == (OPEN_START_TIME - 1) .. OPEN_END_TIME

\* Bounds a chunk tuple can carry when every int64 is allowed in a column.
ScanBounds ==
    {b \in [snull : BOOLEAN, s : TimeValues, enull : BOOLEAN, e : TimeValues] :
        /\ (b.snull => b.s = 0) /\ (b.enull => b.e = 0)
        /\ (~b.snull /\ ~b.enull => b.s <= b.e)}

\* The chunk tuples the scan key (partition_id = part->id) selects: n tuples
\* with ids 1 .. n and bounds f[1] .. f[n].
ScanTable(n, f) ==
    {ChunkTuple(i, f[i].snull, f[i].s, f[i].enull, f[i].e) : i \in 1 .. n}

\* chunk_scan is entered: cctx = {.partition_id, .timepoint}, the other
\* fields zero, and the index scan positioned before the first tuple of a
\* table of up to MaxChunks tuples.
ScanInit ==
    /\ \E n \in 0 .. MaxChunks : \E f \in [1 .. n -> ScanBounds] : chunk_tbl = ScanTable(n, f)
    /\ \E timepoint \in TimeValues :
          scan = ScanState(timepoint, ScanOrder(chunk_tbl), 0, 0, NoChunk, "scanning", <<>>)
    /\ htab = {}
    /\ htab_is_null = TRUE
    /\ post_invalidate_hook = PostInvalidateHookInit
    /\ plans = <<>>
    /\ initialized = FALSE
    /\ last = NoOp
    /\ synth = NoSynth

\* The two assignments of chunk_tuple_timepoint_filter to ctx->starttime and
\* ctx->endtime, made for every tuple it is handed.
FilterAssigns(ctx, t) ==
    [ctx EXCEPT !.starttime = IF t.starttime_is_null THEN OPEN_START_TIME ELSE t.start_time,
                !.endtime = IF t.endtime_is_null THEN OPEN_END_TIME ELSE t.end_time]

\* A filter that compares with > and < where the code has >= and <=.
FilterAcceptsStrict(ctx, t) ==
    /\ (t.starttime_is_null \/ ctx.timepoint > ctx.starttime)
    /\ (t.endtime_is_null \/ ctx.timepoint < ctx.endtime)

\* The filter's verdict, read from the ctx it has just written.
FilterAccepts(ctx, t) ==
    /\ (t.starttime_is_null \/ ctx.timepoint >= ctx.starttime)
    /\ (t.endtime_is_null \/ ctx.timepoint <= ctx.endtime)

\* chunk_tuple_found: the chunk is built from the tuple's id and from
\* ctx->starttime / ctx->endtime.
FoundAssigns(ctx, t) ==
    [ctx EXCEPT !.chunk = chunk_row_create(t.id, PartitionId, ctx.starttime, ctx.endtime)]

\* scanner_scan hands the next tuple to the filter, which rejects it.
ScanFilterRejects ==
    /\ scan.pc = "scanning" /\ scan.rest # <<>>
    /\ ~FilterAccepts(FilterAssigns(scan, Head(scan.rest)), Head(scan.rest))
    /\ scan' = [FilterAssigns(scan, Head(scan.rest)) EXCEPT !.rest = Tail(scan.rest)]
    /\ UNCHANGED <<chunk_tbl, htab, htab_is_null, post_invalidate_hook, plans, initialized, last, synth>>

\* The filter accepts the tuple; chunk_tuple_found runs and returns false,
\* which ends the scan.
ScanTupleFound ==
    /\ scan.pc = "scanning" /\ scan.rest # <<>>
    /\ FilterAccepts(FilterAssigns(scan, Head(scan.rest)), Head(scan.rest))
    /\ scan' = [FoundAssigns(FilterAssigns(scan, Head(scan.rest)), Head(scan.rest))
                  EXCEPT !.rest = Tail(scan.rest), !.pc = "done"]
    /\ UNCHANGED <<chunk_tbl, htab, htab_is_null, post_invalidate_hook, plans, initialized, last, synth>>

\* The index scan runs out of tuples.
ScanExhausted ==
    /\ scan.pc = "scanning" /\ scan.rest = <<>>
    /\ scan' = [scan EXCEPT !.pc = "done"]
    /\ UNCHANGED <<chunk_tbl, htab, htab_is_null, post_invalidate_hook, plans, initialized, last, synth>>

\* get_chunk_cache_entry passes the found chunk's id, start_time and end_time
\* on, and the statement is synthesized from them.
ScanSynthesize ==
    /\ scan.pc = "done" /\ scan.chunk # NoChunk
    /\ scan' = [scan EXCEPT !.pc = "synthesized",
                             !.sql = InsertSql(QueryCtx(scan.chunk.id, scan.chunk.start_time,
                                                        scan.chunk.end_time))]
    /\ UNCHANGED <<chunk_tbl, htab, htab_is_null, post_invalidate_hook, plans, initialized, last, synth>>

ScanNext ==
    \/ ScanFilterRejects
    \/ ScanTupleFound
    \/ ScanExhausted
    \/ ScanSynthesize

ScanSpec == ScanInit /\ [][ScanNext]_vars

\* ------------------------------------------- get_copy_table_insert_sql calls
\* The keyspace of partition p of an epoch with num_partitions partitions.
PartitionKeyspace(num_partitions, p) ==
    <<((p - 1) * (KeyspaceEnd + 1)) \div num_partitions,
      (p * (KeyspaceEnd + 1)) \div num_partitions - 1>>

\* The crn_sets fetch_crn_set can hand back: up to MaxTables distinct tables,
\* in any order.
CrnRows == {[chunk_id |-> 1, replica |-> r] : r \in 1 .. MaxTables}

CrnSets ==
    UNION {{f \in [1 .. n -> CrnRows] : \A i, j \in 1 .. n : i # j => f[i] # f[j]} :
              n \in 0 .. MaxTables}

SynthCall(num_partitions, keyspace, chunk_start_time, chunk_end_time, tables) ==
    SynthState(num_partitions, keyspace[1], keyspace[2], chunk_start_time, chunk_end_time,
               tables, <<>>, "call")

SynthInit ==
    /\ \E num_partitions \in 1 .. MaxPartitions, chunk_start_time \in TimeValues,
          chunk_end_time \in TimeValues, tables \in CrnSets :
          \E p \in 1 .. num_partitions :
              synth = SynthCall(num_partitions, PartitionKeyspace(num_partitions, p),
                                chunk_start_time, chunk_end_time, tables)
    /\ chunk_tbl = {}
    /\ htab = {}
    /\ htab_is_null = TRUE
    /\ post_invalidate_hook = PostInvalidateHookInit
    /\ plans = <<>>
    /\ initialized = FALSE
    /\ last = NoOp
    /\ scan = NoScan

\* The call runs and returns sql_insert->data.
Synthesize ==
    /\ synth.pc = "call"
    /\ synth' = [synth EXCEPT !.pc = "returned",
                   !.sql = get_copy_table_insert_sql(synth.num_partitions, synth.keyspace_start,
                                                     synth.keyspace_end, synth.chunk_start_time,
                                                     synth.chunk_end_time, synth.tables)]
    /\ UNCHANGED <<chunk_tbl, htab, htab_is_null, post_invalidate_hook, plans, initialized, last, scan>>

SynthNext == Synthesize

SynthSpec == SynthInit /\ [][SynthNext]_vars


\* ------------------------------------------------------------- properties
Returned == {"miss", "hit", "rebuild"}

\* The stored entry of a chunk id (a set of at most one entry).
Entry(chunk_id) == {e \in htab : e.chunk_id = chunk_id}

\* The handles the last operation passed to SPI_freeplan, in order.
Freed == SelectSeq(last.events, LAMBDA x : x.ev = "free")

\* The positions of the last operation's events of a kind.
At(kind) == {i \in DOMAIN last.events : last.events[i].ev = kind}

\* The statement a plan for these bounds is compiled from.
SqlFor(chunk_id, start_time, end_time) == InsertSql(QueryCtx(chunk_id, start_time, end_time))

\* A build as create_entry / a stale update_entry performs it: h is new.
FreshBuild(h) ==
    /\ h = Len(plans)
    /\ plans[h].freed = 0
    /\ \E i \in At("compile") : last.events[i].h = h
    /\ \E e \in Entry(last.chunk_id) : e.move_from_copyt_plan = h

\* C1: a fetch that follows a returned fetch of the same chunk id and bounds
\* (no invalidation or shutdown between them) returns the same handle and
\* synthesizes, compiles and releases nothing.
C1_IdempotentHit ==
    (last.op \in Returned /\ last.history.prev_plan # 0) =>
        /\ last.plan = last.history.prev_plan
        /\ last.events = <<>>

\* C2: a fetch that finds an entry whose stored bounds differ from the bounds
\* supplied returns a newly compiled handle, and whenever a fetch returns an
\* entry its stored bounds are the bounds supplied.
C2_StaleRebuildUpdatesBounds ==
    last.op \in Returned =>
        /\ \A e \in Entry(last.chunk_id) :
              e.start_time = last.start_time /\ e.end_time = last.end_time
        /\ \A b \in last.before :
              (b.start_time # last.start_time \/ b.end_time # last.end_time) =>
                  last.op = "rebuild" /\ FreshBuild(last.plan)

\* C3: the live plan get_chunk_cache_entry returns was compiled from the
\* statement synthesized with the bounds of the chunk resolved in that call.
C3_FacadePlanForCurrentBounds ==
    (last.op \in Returned /\ plans[last.plan].freed = 0) =>
        plans[last.plan].sql = SqlFor(last.chunk_id, last.start_time, last.end_time)

\* C4: every stored entry's live plan was compiled from the statement
\* synthesized with the entry's stored start_time and end_time.
C4_StoredPlanMatchesStoredBounds ==
    \A e \in htab :
        plans[e.move_from_copyt_plan].freed = 0 =>
            plans[e.move_from_copyt_plan].sql = SqlFor(e.chunk_id, e.start_time, e.end_time)

\* C5: the handle a stale rebuild replaces has been released exactly once,
\* by that rebuild, and is neither stored nor returned any more.
C5_ReplacedHandleReleasedOnce ==
    last.op = "rebuild" =>
        \A i \in DOMAIN Freed :
            /\ plans[Freed[i].h].freed = 1
            /\ Freed[i].h # last.plan
            /\ \A e \in htab : e.move_from_copyt_plan # Freed[i].h


\* C6: invalidate_chunk_cache_callback on a cache in use leaves it
\* re-initialized and empty, and the next fetch of a chunk id it dropped takes
\* the create path, whatever the bounds: when it returns, it has synthesized
\* and compiled a fresh plan and stored a new entry.
C6_InvalidateClearsAll ==
    /\ last.op = "invalidate" => ~htab_is_null /\ htab = {} /\ At("init") # {}
    /\ (last.op \in FetchOps /\ last.history.dropped # "none") =>
          /\ last.op \in {"miss", "create_failed"}
          /\ last.before = {}
          /\ last.op = "miss" =>
                /\ FreshBuild(last.plan)
                /\ At("synth") # {}
                /\ Entry(last.chunk_id) =
                      {[chunk_id |-> last.chunk_id, start_time |-> last.start_time,
                        end_time |-> last.end_time, move_from_copyt_plan |-> last.plan]}

C6_Witness ==
    /\ last.op = "miss"
    /\ last.history.dropped = "same bounds"
    /\ Len(plans) >= 2

\* C7: an invalidation or shutdown releases the plan of every stored entry
\* exactly once, before the table is destroyed, and leaves no compiled plan
\* unreleased; a stale rebuild releases the old plan before it stores the new.
C7_ReleaseBeforeDiscard ==
    /\ last.op \in {"invalidate", "fini"} =>
          /\ \A e \in last.before :
                /\ plans[e.move_from_copyt_plan].freed = 1
                /\ Cardinality({i \in At("free") : last.events[i].h = e.move_from_copyt_plan}) = 1
          /\ \A i \in At("free"), j \in At("destroy") : i < j
          /\ \A h \in DOMAIN plans : plans[h].freed >= 1
    /\ last.op = "rebuild" =>
          /\ At("free") # {}
          /\ \A i \in At("free"), j \in At("store") : i < j

C9_FailedRebuildLeavesEntry ==
    last.op = "rebuild_failed" =>
        /\ Entry(last.chunk_id) = last.before
        /\ At("free") = {}

Owners(tbl, timepoint) ==
    {t \in tbl : /\ (t.starttime_is_null \/ timepoint >= t.start_time)
                 /\ (t.endtime_is_null \/ timepoint <= t.end_time)}

\* C11: a get_chunk_cache_entry call for a timepoint inside an existing
\* chunk's bounds fetches with that chunk's id and creates no chunk; for a
\* timepoint outside every chunk, a call that returns has created exactly one
\* chunk, fetched with its id, and left it the one chunk that owns the
\* timepoint (so a later call finds it), and a call that fails leaves the
\* chunk table as it was.  (Stated of the steps that touch the cache.)
C11_ResolutionDeterministic ==
    [][<<htab, plans, last>>' # <<htab, plans, last>> =>
       \A timepoint \in Timepoints :
          \A nb \in NewChunkBounds(chunk_tbl, timepoint), fail \in {"none", "synth", "compile"} :
              get_chunk_cache_entry(timepoint, nb, fail) =>
                  /\ Owners(chunk_tbl, timepoint) # {} =>
                        /\ chunk_tbl' = chunk_tbl
                        /\ \E t \in Owners(chunk_tbl, timepoint) : last'.chunk_id = t.id
                  /\ Owners(chunk_tbl, timepoint) = {} =>
                        \/ last'.plan = 0 /\ chunk_tbl' = chunk_tbl
                        \/ /\ last'.op = "miss"
                           /\ \E c \in chunk_tbl' \ chunk_tbl :
                                 /\ chunk_tbl' = chunk_tbl \cup {c}
                                 /\ \A t \in chunk_tbl : t.id # c.id
                                 /\ last'.chunk_id = c.id
                                 /\ Owners(chunk_tbl', timepoint) = {c}]_vars

C11_Witness ==
    /\ last.op = "hit"
    /\ last.history.prev_plan # 0
    /\ last.chunk_id >= 2
    /\ Cardinality(chunk_tbl) = last.chunk_id

\* The tuples the scan has not handed to the filter.
Unexamined == {scan.rest[i] : i \in DOMAIN scan.rest}

\* C12: a finished chunk_scan has a chunk iff some record of the partition
\* contains the timepoint (a NULL bound being open); the chunk is built from
\* the first such record in index order: its id, its start and end (a NULL
\* read as OPEN_START_TIME / OPEN_END_TIME), and the scan has stopped at it.
C12_ScanReturnsFirstOwner ==
    scan.pc \in {"done", "synthesized"} =>
        /\ scan.chunk # NoChunk <=> Owners(chunk_tbl, scan.timepoint) # {}
        /\ \A t \in Owners(chunk_tbl, scan.timepoint) :
              (\A u \in Owners(chunk_tbl, scan.timepoint) \ {t} : IndexBefore(t, u)) =>
                  /\ scan.chunk.id = t.id
                  /\ scan.chunk.partition_id = PartitionId
                  /\ scan.chunk.start_time =
                        IF t.starttime_is_null THEN OPEN_START_TIME ELSE t.start_time
                  /\ scan.chunk.end_time =
                        IF t.endtime_is_null THEN OPEN_END_TIME ELSE t.end_time
                  /\ \A u \in chunk_tbl : u \in Unexamined <=> IndexBefore(t, u)
        /\ scan.chunk = chunk_scan(chunk_tbl, scan.timepoint)

\* A record with other bounds was examined and rejected before the one returned.
C12_Witness ==
    /\ scan.pc = "done"
    /\ scan.chunk # NoChunk
    /\ \E u \in chunk_tbl \ Unexamined :
          /\ u \notin Owners(chunk_tbl, scan.timepoint)
          /\ CtxStarttime(u) # scan.chunk.start_time
          /\ CtxEndtime(u) # scan.chunk.end_time

\* The predicate of the staging step of the returned statement.
Where == synth.sql[1].where

\* The positions of a clause in the predicate.
ClauseAt(clause) == {i \in DOMAIN Where : Where[i].clause = clause}

\* C13: the predicate get_copy_table_insert_sql returns is, in this order:
\* the always-true clause; the partitioning-function range clause over
\* [keyspace_start, keyspace_end] iff num_partitions > 1; a lower-bound time
\* clause on the chunk start iff the start is not open; an upper-bound time
\* clause on the chunk end iff the end is not open; and nothing else.
C13_PredicateConstruction ==
    synth.pc = "returned" =>
        /\ ClauseAt("TRUE") = {1}
        /\ ClauseAt("partfunc BETWEEN") = IF synth.num_partitions > 1 THEN {2} ELSE {}
        /\ \A i \in ClauseAt("partfunc BETWEEN") :
              Where[i].lo = synth.keyspace_start /\ Where[i].hi = synth.keyspace_end
        /\ Cardinality(ClauseAt("time >=")) =
              IF synth.chunk_start_time # OPEN_START_TIME THEN 1 ELSE 0
        /\ \A i \in ClauseAt("time >=") :
              /\ Where[i].arg = internal_time_to_column_literal_sql(synth.chunk_start_time)
              /\ \A j \in ClauseAt("TRUE") \cup ClauseAt("partfunc BETWEEN") : j < i
        /\ Cardinality(ClauseAt("time <=")) =
              IF synth.chunk_end_time # OPEN_END_TIME THEN 1 ELSE 0
        /\ \A i \in ClauseAt("time <=") :
              /\ Where[i].arg = internal_time_to_column_literal_sql(synth.chunk_end_time)
              /\ \A j \in DOMAIN Where \ {i} : j < i
        /\ DOMAIN Where = ClauseAt("TRUE") \cup ClauseAt("partfunc BETWEEN")
                             \cup ClauseAt("time >=") \cup ClauseAt("time <=")

\* Open start and open end with more than one partition.
C13_Witness ==
    /\ synth.pc = "returned"
    /\ synth.num_partitions > 1
    /\ synth.chunk_start_time = OPEN_START_TIME
    /\ synth.chunk_end_time = OPEN_END_TIME
    /\ Len(Where) = 2

\* The positions of a kind of token in the returned statement.
TokAt(tok) == {i \in DOMAIN synth.sql : synth.sql[i].tok = tok}

\* The insertion steps of the returned statement, in text order.
InsertSteps == SelectSeq(synth.sql, LAMBDA x : x.tok = "insert")

\* C14: for a crn_set of N tables (N >= 0) the returned statement has the
\* staging delete step first, then exactly N insertion steps, the k-th into
\* the k-th table of the set and selecting from the staging result set, and
\* the terminal SELECT 1 last.
C14_DestinationEnumeration ==
    synth.pc = "returned" =>
        /\ TokAt("selected") = {1}
        /\ TokAt("SELECT 1") = {Len(synth.sql)}
        /\ Len(InsertSteps) = Len(synth.tables)
        /\ \A k \in DOMAIN InsertSteps :
              /\ InsertSteps[k].into = synth.tables[k]
              /\ InsertSteps[k].from = "selected"
              /\ InsertSteps[k].i = k
        /\ \A i \in TokAt("insert") : 1 < i /\ i < Len(synth.sql)

\* Three destination tables.
C14_Witness ==
    /\ synth.pc = "returned"
    /\ Len(synth.tables) = 3
    /\ Len(InsertSteps) = 3

\* The steps of the WITH list: the staging step and the insertion steps.
StepAt == TokAt("selected") \cup TokAt("insert")

\* C16: in the returned statement every two neighbouring steps of the WITH
\* list have exactly one comma between them, and no comma directly precedes
\* the terminal SELECT 1; for every number of destination tables.
C16_StatementWellFormed ==
    synth.pc = "returned" =>
        /\ \A i \in StepAt : \A j \in StepAt :
              (i < j /\ \A k \in StepAt : ~(i < k /\ k < j)) =>
                  j = i + 2 /\ synth.sql[i + 1].tok = ","
        /\ \A i \in TokAt("SELECT 1") : i > 1 => synth.sql[i - 1].tok # ","

\* C15: the cache holds at most one entry per chunk id, and a fetch for a
\* chunk id (miss, hit, rebuild, failed create or failed rebuild) leaves every
\* entry of another chunk id stored as it was, with its plan as it was.
C15_PerChunkIsolation ==
    /\ [](\A e1 \in htab : \A e2 \in htab : e1.chunk_id = e2.chunk_id => e1 = e2)
    /\ [][last'.op \in FetchOps =>
            \A e \in htab :
                e.chunk_id # last'.chunk_id =>
                    /\ e \in htab'
                    /\ plans'[e.move_from_copyt_plan] = plans[e.move_from_copyt_plan]]_vars

\* A failed rebuild beside a live entry of another chunk id.
C15_Witness ==
    /\ last.op = "rebuild_failed"
    /\ At("free") # {}
    /\ \E e \in htab : e.chunk_id # last.chunk_id /\ plans[e.move_from_copyt_plan].freed = 0

\* C17: every plan handle stored in an entry is live, and no plan handle has
\* been passed to SPI_freeplan more than once.
C17_NoDanglingNoDoubleRelease ==
    /\ \A e \in htab : plans[e.move_from_copyt_plan].freed = 0
    /\ \A h \in DOMAIN plans : plans[h].freed <= 1

\* C18: the plan a get_chunk_cache_entry call has handed to its caller is
\* not released by the operation that comes next, be it a fetch of the same
\* chunk id with changed bounds or an invalidate_chunk_cache_callback.
C18_ReturnedHandleStaysLive ==
    [][(last.op \in Returned /\ plans[last.plan].freed = 0
        /\ last'.op \in FetchOps \cup {"invalidate"})
       => plans'[last.plan].freed = 0]_vars

\* The time clauses of a predicate accept a row's time q.
TimeClausesAccept(where, q) ==
    \A i \in DOMAIN where :
        /\ where[i].clause = "time >=" => q >= where[i].arg.literal
        /\ where[i].clause = "time <=" => q <= where[i].arg.literal

\* C19: for the record chunk_scan returned, the time clauses of the
\* statement synthesized for it accept a time iff
\* chunk_tuple_timepoint_filter accepts that time for the record, and a time
\* clause is left out exactly when the record's bound is NULL.
C19_FilterAndPredicateAgree ==
    scan.pc = "synthesized" =>
        \A t \in chunk_tbl :
            t.id = scan.chunk.id =>
                /\ \A q \in TimeValues :
                      TimeClausesAccept(scan.sql[1].where, q)
                          <=> chunk_tuple_timepoint_filter(t, q)
                /\ t.starttime_is_null
                      <=> \A i \in DOMAIN scan.sql[1].where :
                              scan.sql[1].where[i].clause # "time >="
                /\ t.endtime_is_null
                      <=> \A i \in DOMAIN scan.sql[1].where :
                              scan.sql[1].where[i].clause # "time <="

====
